---- MODULE Spec2Model ----
(***************************************************************************)
(* The durable job queue of src/unnamed/part_003 (enqueue, claim,          *)
(* complete, fail, reclaimStaleLocks, retryJob, deleteJob, purgeCompleted) *)
(* over the single "jobs" table declared at the end of the same file.      *)
(*                                                                         *)
(* Every database statement is one atomic step.  A handler that awaits two *)
(* statements (enqueue with an idempotency key: SELECT then INSERT; fail:  *)
(* SELECT then UPDATE) is two steps of its caller, and other callers may   *)
(* run between them.  A sequential caller simply takes both steps in a     *)
(* row.                                                                    *)
(*                                                                         *)
(* Time is the millisecond wall clock read by Date.now() / new Date().     *)
(* toISOString() renders it as a fixed-width UTC string with millisecond   *)
(* resolution; the database compares those strings lexicographically,      *)
(* which for fixed-width ISO strings is the numeric order of the           *)
(* millisecond values, so a timestamp is modelled by its millisecond       *)
(* count.  Two calls in the same millisecond get equal timestamps.         *)
(***************************************************************************)
EXTENDS Integers, FiniteSets, Sequences, Bags, TLC

\* ---------------------------------------------------------------- bounds
MaxJobs == 2

\* The clock advances at most MaxTicks times.
MaxTicks == 1

\* At most MaxSuspended handlers are suspended between two of their
\* statements at any time.
MaxSuspended == 1

\* ------------------------------------------------------- program constants
LOCK_TIMEOUT_MINUTES == 5

LockTimeoutMs == LOCK_TIMEOUT_MINUTES * 60 * 1000

\* SQL NULL in a timestamp column (locked_at, claimed_at, completed_at).
NullTime == -1

\* The absent job: the null / undefined result of a lookup or of a call.
NoJob == 0

\* SQL NULL in a text column (last_error, locked_by, idempotency_key).
NullText == "null"

\* ----------------------------------------------------------- input sets
\* The worker identities passed to claim().
Workers == {"w1", "w2"}

Ids == 1 .. MaxJobs

\* One payload per job type; the engine never looks inside it.
EchoPayload == [type |-> "echo", message |-> "m"]

CreateFilePayload == [type |-> "create_file", path |-> "p", content |-> "c"]

\* enqueue(payload, options) after the defaults are filled in
\* (priority = 0, maxAttempts = 3, idempotencyKey undefined).
Request(payload, priority, maxAttempts, key) ==
    [payload |-> payload, priority |-> priority,
     maxAttempts |-> maxAttempts, idempotencyKey |-> key]

\* The enqueue calls that are made: both priorities, two attempt budgets,
\* without and with an idempotency key.
EnqueueRequests ==
    { Request(EchoPayload, 0, 2, NullText),
      Request(CreateFilePayload, 1, 1, "k") }

Errors == {"boom"}

\* Clock advances: to the first millisecond at which a lock taken now is stale.
TickSteps == {LockTimeoutMs + 1}

\* ----------------------------------------------------------------- state
VARIABLES
    jobs,     \* the jobs table: job id -> row, for the rows that exist
    nextId,   \* the next identifier generateId() hands out
    clock,    \* Date.now(), in milliseconds
    suspended,\* the bag of handlers suspended at an await: their local variables
    last      \* the last step: the operation that ran and what it returned
              \* ("await" when its handler suspended instead of returning)

vars == <<jobs, nextId, clock, suspended, last>>

Ret(op, val) == [op |-> op, val |-> val]

\* Another handler may be suspended now.
MaySuspend == BagCardinality(suspended) < MaxSuspended

\* A handler suspends with the local variables in frame.
Suspend(frame) ==
    /\ suspended' = suspended (+) SetToBag({frame})
    /\ last' = Ret("await", NoJob)

\* The suspended handler with the local variables in frame resumes.
Resume(frame) == suspended' = suspended (-) SetToBag({frame})

\* -------------------------------------------------------------- helpers
nowISO == clock

Live(status) == status \in {"pending", "claimed"}

Rows == DOMAIN jobs

\* The table with row i replaced by r.
UpdateRow(i, r) == [jobs EXCEPT ![i] = r]

\* The table with the new row r added under r.id.
InsertRow(r) == [i \in Rows \cup {r.id} |-> IF i = r.id THEN r ELSE jobs[i]]

\* The table without the rows in S.
DeleteRows(S) == [i \in Rows \ S |-> jobs[i]]

Init ==
    /\ jobs = [i \in {} |-> NoJob]
    /\ nextId = 1
    /\ clock = 0
    /\ suspended = EmptyBag
    /\ last = Ret("none", NoJob)

\* ------------------------------------------------------------------ time
Tick ==
    \E d \in TickSteps :
        /\ clock + d <= MaxTicks * (LockTimeoutMs + 1)
        /\ clock' = clock + d
        /\ last' = Ret("tick", NoJob)
        /\ UNCHANGED <<jobs, nextId, suspended>>

\* --------------------------------------------------------------- enqueue
\* The row enqueue inserts.
NewJob(id, req, now) ==
    [ id |-> id,
      type |-> req.payload.type,
      payload |-> req.payload,
      status |-> "pending",
      priority |-> req.priority,
      attempts |-> 0,
      maxAttempts |-> req.maxAttempts,
      lastError |-> NullText,
      lockedBy |-> NullText,
      lockedAt |-> NullTime,
      createdAt |-> now,
      claimedAt |-> NullTime,
      completedAt |-> NullTime,
      idempotencyKey |-> req.idempotencyKey ]

\* SELECT ... WHERE type = t AND idempotency_key = key: the matching rows.
ExistingByKey(t, key) ==
    {i \in Rows : jobs[i].type = t /\ jobs[i].idempotencyKey = key}

\* The INSERT of enqueue, with a fresh id and createdAt = now.
EnqueueInsert(req) ==
    /\ nextId <= MaxJobs
    /\ jobs' = InsertRow(NewJob(nextId, req, nowISO))
    /\ nextId' = nextId + 1
    /\ last' = Ret("enqueue", nextId)
    /\ UNCHANGED clock

\* The lookup of enqueue found a live row i: return it, nothing is written.
EnqueueExisting(i) ==
    /\ last' = Ret("enqueue", i)
    /\ UNCHANGED <<jobs, nextId, clock, suspended>>

\* The lookup of enqueue found no row, or a row that is not live: the
\* handler goes on to the INSERT, which is its next awaited statement.
EnqueueProceed(req) ==
    /\ MaySuspend
    /\ Suspend([op |-> "enqueue", req |-> req])
    /\ UNCHANGED <<jobs, nextId, clock>>

\* enqueue() up to its first await.  With no key it goes straight to the
\* INSERT.  With a key it runs the lookup, whose LIMIT 1 without ORDER BY
\* yields any one of the matching rows, and returns that row if it is live.
EnqueueCall(req) ==
    IF req.idempotencyKey = NullText
    THEN EnqueueInsert(req) /\ UNCHANGED suspended
    ELSE IF ExistingByKey(req.payload.type, req.idempotencyKey) = {}
         THEN EnqueueProceed(req)
         ELSE \E i \in ExistingByKey(req.payload.type, req.idempotencyKey) :
                  IF Live(jobs[i].status)
                  THEN EnqueueExisting(i)
                  ELSE EnqueueProceed(req)

\* enqueue() resumed after the lookup: the INSERT.
EnqueueResume(frame) ==
    /\ frame.op = "enqueue"
    /\ Resume(frame)
    /\ EnqueueInsert(frame.req)

\* ----------------------------------------------------------------- claim
\* A claim that also takes rows another worker holds.
IsPendingMutant(r) == r.status \in {"pending", "claimed"}

\* status = 'pending', the condition of claim's UPDATE and of its subquery.
IsPending(r) == r.status = "pending"

\* A subquery that offers only jobs never attempted before.
PendingRowsMutant == {i \in Rows : IsPending(jobs[i]) /\ jobs[i].attempts = 0}

PendingRows == {i \in Rows : IsPending(jobs[i])}

\* An ordering by age first: ORDER BY created_at ASC, priority DESC.
SortsBeforeMutant(a, b) ==
    \/ jobs[a].createdAt < jobs[b].createdAt
    \/ /\ jobs[a].createdAt = jobs[b].createdAt
       /\ jobs[a].priority > jobs[b].priority

\* ORDER BY priority DESC, created_at ASC: row a sorts strictly before row b.
SortsBefore(a, b) ==
    \/ jobs[a].priority > jobs[b].priority
    \/ /\ jobs[a].priority = jobs[b].priority
       /\ jobs[a].createdAt < jobs[b].createdAt

\* SELECT id FROM jobs WHERE status = 'pending' ORDER BY priority DESC,
\* created_at ASC LIMIT 1: the rows the subquery may yield.  Rows that tie
\* on both sort keys come in an order SQL leaves open.
ClaimCandidates ==
    {i \in PendingRows : \A k \in PendingRows : ~SortsBefore(k, i)}

\* A claim that does not stamp claimedAt.
ClaimedRowMutant(r, workerId, now) ==
    [r EXCEPT !.status = "claimed",
              !.lockedBy = workerId,
              !.lockedAt = now,
              !.attempts = r.attempts + 1]

\* The SET clause of claim's UPDATE applied to row r.
ClaimedRow(r, workerId, now) ==
    [r EXCEPT !.status = "claimed",
              !.lockedBy = workerId,
              !.lockedAt = now,
              !.claimedAt = now,
              !.attempts = r.attempts + 1]

\* claim(workerId): one UPDATE ... WHERE status = 'pending' AND id = (subquery)
\* RETURNING; null when it updated no row.
Claim(w) ==
    /\ IF ClaimCandidates = {}
       THEN /\ last' = Ret("claim", NoJob)
            /\ UNCHANGED jobs
       ELSE \E j \in ClaimCandidates :
                IF IsPending(jobs[j])
                THEN /\ jobs' = UpdateRow(j, ClaimedRow(jobs[j], w, nowISO))
                     /\ last' = Ret("claim", j)
                ELSE /\ last' = Ret("claim", NoJob)
                     /\ UNCHANGED jobs
    /\ UNCHANGED <<nextId, clock, suspended>>

\* -------------------------------------------------------------- complete
\* A complete that takes effect on claimed jobs only.
CompletedRowMutant(r, now) ==
    IF r.status = "claimed"
    THEN [r EXCEPT !.status = "completed",
                   !.completedAt = now,
                   !.lockedBy = NullText,
                   !.lockedAt = NullTime]
    ELSE r

\* The SET clause of complete's UPDATE applied to row r.
CompletedRow(r, now) ==
    [r EXCEPT !.status = "completed",
              !.completedAt = now,
              !.lockedBy = NullText,
              !.lockedAt = NullTime]

\* complete(jobId): one UPDATE ... WHERE id = jobId RETURNING.
Complete(jobId) ==
    /\ IF jobId \in Rows
       THEN /\ jobs' = UpdateRow(jobId, CompletedRow(jobs[jobId], nowISO))
            /\ last' = Ret("complete", jobId)
       ELSE /\ last' = Ret("complete", NoJob)
            /\ UNCHANGED jobs
    /\ UNCHANGED <<nextId, clock, suspended>>

\* ------------------------------------------------------------------ fail
\* A budget that allows one attempt too many.
ExhaustedMutant(attempts, maxAttempts) == attempts > maxAttempts

\* The branch fail() takes on the row it read: attempts >= maxAttempts.
Exhausted(attempts, maxAttempts) == attempts >= maxAttempts

\* A terminal UPDATE that counts the failure as one more attempt.
FailedRowMutant(r, error, now) ==
    [r EXCEPT !.status = "failed",
              !.lastError = error,
              !.completedAt = now,
              !.lockedBy = NullText,
              !.lockedAt = NullTime,
              !.attempts = r.attempts + 1]

\* The SET clause of fail's terminal UPDATE applied to row r.
FailedRow(r, error, now) ==
    [r EXCEPT !.status = "failed",
              !.lastError = error,
              !.completedAt = now,
              !.lockedBy = NullText,
              !.lockedAt = NullTime]

\* A retry UPDATE that forgets to clear the lock holder.
RetriedRowMutant(r, error) ==
    [r EXCEPT !.status = "pending",
              !.lastError = error,
              !.lockedAt = NullTime]

\* The SET clause of fail's retry UPDATE applied to row r.
RetriedRow(r, error) ==
    [r EXCEPT !.status = "pending",
              !.lastError = error,
              !.lockedBy = NullText,
              !.lockedAt = NullTime]

\* fail(jobId, error) up to its second await: the SELECT of the current row,
\* the null return when there is none, and the choice of the branch.
FailCall(jobId, error) ==
    /\ IF jobId \in Rows
       THEN /\ MaySuspend
            /\ Suspend([op |-> "fail", jobId |-> jobId, error |-> error,
                         exhausted |-> Exhausted(jobs[jobId].attempts,
                                                 jobs[jobId].maxAttempts)])
       ELSE /\ last' = Ret("fail", NoJob)
            /\ UNCHANGED suspended
    /\ UNCHANGED <<jobs, nextId, clock>>

\* fail() resumed: the UPDATE ... WHERE id = jobId RETURNING of the branch
\* chosen from the row read earlier; null when the row is gone by now.
FailResume(frame) ==
    /\ frame.op = "fail"
    /\ Resume(frame)
    /\ LET jobId == frame.jobId
           error == frame.error
       IN  IF jobId \in Rows
           THEN /\ jobs' = UpdateRow(jobId,
                              IF frame.exhausted
                              THEN FailedRow(jobs[jobId], error, nowISO)
                              ELSE RetriedRow(jobs[jobId], error))
                /\ last' = Ret("fail", jobId)
           ELSE /\ last' = Ret("fail", NoJob)
                /\ UNCHANGED jobs
    /\ UNCHANGED <<nextId, clock>>

\* ----------------------------------------------------- reclaimStaleLocks
\* new Date(Date.now() - LOCK_TIMEOUT_MINUTES * 60 * 1000).toISOString()
Cutoff == clock - LOCK_TIMEOUT_MINUTES * 60 * 1000

\* A comparison turned round: it selects the locks younger than the cutoff.
SqlLtMutant(a, b) == a # NullTime /\ a > b

\* lt(column, value) on a nullable column: NULL compares as not less.
SqlLt(a, b) == a # NullTime /\ a < b

\* WHERE status = 'claimed' AND locked_at < cutoff: the rows the sweep updates.
StaleRows ==
    {i \in Rows : jobs[i].status = "claimed" /\ SqlLt(jobs[i].lockedAt, Cutoff)}

\* A sweep that counts the reclamation as an attempt.
ReclaimedRowMutant(r) ==
    [r EXCEPT !.status = "pending",
              !.lockedBy = NullText,
              !.lockedAt = NullTime,
              !.attempts = r.attempts + 1]

\* The SET clause of the sweep's UPDATE applied to row r.
ReclaimedRow(r) ==
    [r EXCEPT !.status = "pending",
              !.lockedBy = NullText,
              !.lockedAt = NullTime]

\* A sweep that also expires the completed jobs.
ReclaimStaleLocksMutant ==
    /\ jobs' = [i \in {k \in Rows : jobs[k].status # "completed"} |->
                   IF i \in StaleRows THEN ReclaimedRow(jobs[i]) ELSE jobs[i]]
    /\ last' = Ret("reclaimStaleLocks", Cardinality(StaleRows))
    /\ UNCHANGED <<nextId, clock, suspended>>

\* reclaimStaleLocks(): one UPDATE ... RETURNING; returns the row count.
ReclaimStaleLocks ==
    /\ jobs' = [i \in Rows |-> IF i \in StaleRows THEN ReclaimedRow(jobs[i])
                                                 ELSE jobs[i]]
    /\ last' = Ret("reclaimStaleLocks", Cardinality(StaleRows))
    /\ UNCHANGED <<nextId, clock, suspended>>

\* ----------------------------------------------------------------- admin
\* A manual retry that keeps the attempts already counted.
RetryRowMutant(r) ==
    [r EXCEPT !.status = "pending",
              !.lastError = NullText,
              !.lockedBy = NullText,
              !.lockedAt = NullTime,
              !.completedAt = NullTime]

\* A manual retry that sends the job to the back of its priority band.
RetryRowRequeueMutant(r) ==
    [r EXCEPT !.status = "pending",
              !.attempts = 0,
              !.lastError = NullText,
              !.lockedBy = NullText,
              !.lockedAt = NullTime,
              !.completedAt = NullTime,
              !.createdAt = nowISO]

\* The SET clause of retryJob's UPDATE applied to row r.
RetryRow(r) ==
    [r EXCEPT !.status = "pending",
              !.attempts = 0,
              !.lastError = NullText,
              !.lockedBy = NullText,
              !.lockedAt = NullTime,
              !.completedAt = NullTime]

\* retryJob(jobId): one UPDATE ... WHERE id = jobId RETURNING.
RetryJob(jobId) ==
    /\ IF jobId \in Rows
       THEN /\ jobs' = UpdateRow(jobId, RetryRow(jobs[jobId]))
            /\ last' = Ret("retryJob", jobId)
       ELSE /\ last' = Ret("retryJob", NoJob)
            /\ UNCHANGED jobs
    /\ UNCHANGED <<nextId, clock, suspended>>

\* A delete that reports success whether or not a row was there.
DeleteJobMutant(jobId) ==
    /\ jobs' = DeleteRows({jobId} \cap Rows)
    /\ last' = Ret("deleteJob", TRUE)
    /\ UNCHANGED <<nextId, clock, suspended>>

\* deleteJob(jobId): one DELETE ... WHERE id = jobId RETURNING; true when a
\* row was deleted.
DeleteJob(jobId) ==
    /\ jobs' = DeleteRows({jobId} \cap Rows)
    /\ last' = Ret("deleteJob", jobId \in Rows)
    /\ UNCHANGED <<nextId, clock, suspended>>

\* A purge of every terminal row, failed ones included.
CompletedRowsMutant == {i \in Rows : jobs[i].status \in {"completed", "failed"}}

\* WHERE status = 'completed': the rows the purge deletes.
CompletedRows == {i \in Rows : jobs[i].status = "completed"}

\* purgeCompleted(): one DELETE ... WHERE status = 'completed' RETURNING;
\* returns the row count.
PurgeCompleted ==
    /\ jobs' = DeleteRows(CompletedRows)
    /\ last' = Ret("purgeCompleted", Cardinality(CompletedRows))
    /\ UNCHANGED <<nextId, clock, suspended>>

\* --------------------------------------------------------------- getJobs
\* An absent (undefined) filter field.
Absent == "undefined"

\* const { status, type, limit = 50, offset = 0 } = filter
JobFilter(status, type, limit, offset) ==
    [status |-> status, type |-> type, limit |-> limit, offset |-> offset]

\* The filters the queue is asked with.
JobFilters ==
    { JobFilter("pending", "echo", 50, 0),
      JobFilter("completed", Absent, 50, 0),
      JobFilter(Absent, Absent, 1, 1) }

\* The rows the built query selects.  query.where(...) on the select builder
\* sets the builder's one WHERE condition, so of the two calls
\* query.where(eq(status)) and query.where(eq(type)) the later one stands
\* when both are made.
WhereRows(filter) ==
    {i \in Rows :
        IF filter.type # Absent THEN jobs[i].type = filter.type
        ELSE IF filter.status # Absent THEN jobs[i].status = filter.status
        ELSE TRUE}

\* The listings of the rows S that ORDER BY priority DESC, created_at ASC
\* allows: every order of S in which no row comes after a row it sorts
\* strictly before.
OrderedListings(S) ==
    {s \in [1 .. Cardinality(S) -> S] :
        /\ \A a, b \in DOMAIN s : a # b => s[a] # s[b]
        /\ \A a, b \in DOMAIN s : a < b => ~SortsBefore(s[b], s[a])}

\* LIMIT limit OFFSET offset applied to the listing s.
Page(s, limit, offset) ==
    SubSeq(s, offset + 1, IF offset + limit < Len(s) THEN offset + limit
                                                     ELSE Len(s))

\* getJobs(filter): one SELECT; the result is the list of the jobs' ids.
GetJobs(filter) ==
    /\ \E s \in OrderedListings(WhereRows(filter)) :
           last' = Ret("getJobs", Page(s, filter.limit, filter.offset))
    /\ UNCHANGED <<jobs, nextId, clock, suspended>>

\* ---------------------------------------------------------- the system
Next ==
    \/ Tick
    \/ \E req \in EnqueueRequests : EnqueueCall(req)
    \/ \E frame \in BagToSet(suspended) : EnqueueResume(frame)
    \/ \E w \in Workers : Claim(w)
    \/ \E j \in Ids : Complete(j)
    \/ \E j \in Ids, e \in Errors : FailCall(j, e)
    \/ \E frame \in BagToSet(suspended) : FailResume(frame)
    \/ ReclaimStaleLocks
    \/ \E j \in Ids : RetryJob(j)
    \/ \E j \in Ids : DeleteJob(j)
    \/ PurgeCompleted

Spec == Init /\ [][Next]_vars

\* A worker fails the job it holds: fail() is called on a claimed job, once
\* per claim.
WorkerFail(jobId, error) ==
    /\ jobId \in Rows
    /\ jobs[jobId].status = "claimed"
    /\ \A frame \in BagToSet(suspended) :
           frame.op = "fail" => frame.jobId # jobId
    /\ FailCall(jobId, error)

\* The queue driven by enqueue, claim and the claimant's fail only: no
\* complete, no reclamation, no admin call.
RetryNext ==
    \/ Tick
    \/ \E req \in EnqueueRequests : EnqueueCall(req)
    \/ \E frame \in BagToSet(suspended) : EnqueueResume(frame)
    \/ \E w \in Workers : Claim(w)
    \/ \E j \in Ids, e \in Errors : WorkerFail(j, e)
    \/ \E frame \in BagToSet(suspended) : FailResume(frame)

RetrySpec == Init /\ [][RetryNext]_vars

\* A worker completes the job it holds: complete() is called on a claimed
\* job on which no fail() is under way.
WorkerComplete(jobId) ==
    /\ jobId \in Rows
    /\ jobs[jobId].status = "claimed"
    /\ \A frame \in BagToSet(suspended) :
           frame.op = "fail" => frame.jobId # jobId
    /\ Complete(jobId)

\* The queue with workers that call complete or fail on claimed jobs only,
\* the sweep, and the administrator's retryJob.
DeliveryNext ==
    \/ Tick
    \/ \E req \in EnqueueRequests : EnqueueCall(req)
    \/ \E frame \in BagToSet(suspended) : EnqueueResume(frame)
    \/ \E w \in Workers : Claim(w)
    \/ \E j \in Ids : WorkerComplete(j)
    \/ \E j \in Ids, e \in Errors : WorkerFail(j, e)
    \/ \E frame \in BagToSet(suspended) : FailResume(frame)
    \/ ReclaimStaleLocks
    \/ \E j \in Ids : RetryJob(j)

DeliverySpec == Init /\ [][DeliveryNext]_vars

\* The queue as the listing endpoint sees it: jobs are enqueued, claimed and
\* completed, and getJobs reads the table.
QueryNext ==
    \/ Tick
    \/ \E req \in EnqueueRequests : EnqueueCall(req)
    \/ \E frame \in BagToSet(suspended) : EnqueueResume(frame)
    \/ \E w \in Workers : Claim(w)
    \/ \E j \in Ids : Complete(j)
    \/ \E filter \in JobFilters : GetJobs(filter)

QuerySpec == Init /\ [][QueryNext]_vars

\* The queue with workers that crash: jobs are enqueued and claimed, no
\* claimant ever calls complete or fail, and the sweep runs.
LiveNext ==
    \/ Tick
    \/ \E req \in EnqueueRequests : EnqueueCall(req)
    \/ \E frame \in BagToSet(suspended) : EnqueueResume(frame)
    \/ \E w \in Workers : Claim(w)
    \/ ReclaimStaleLocks

\* Time keeps advancing (up to the modelled horizon), the sweep keeps being
\* invoked and some worker keeps calling claim().
LiveSpec ==
    /\ Init
    /\ [][LiveNext]_vars
    /\ WF_vars(Tick)
    /\ WF_vars(ReclaimStaleLocks)
    /\ WF_vars(\E w \in Workers : Claim(w))

\* =========================================================== properties
\* This step is a claim() call that returned job j.
ClaimReturned(j) == last'.op = "claim" /\ last'.val = j

\* This step is a claim() call that returned null.
ClaimReturnedNull == last'.op = "claim" /\ last'.val = NoJob

\* C1: every claim() that returns a job takes it from pending to claimed in
\* that one step, so a job returned once is returned again only after it went
\* back to pending; a claim() facing no pending job returns null and changes
\* nothing, a claim() facing pending jobs removes exactly the returned one
\* from them.  With one pending job and two claim() calls the first gets the
\* job and the second gets null.
C1_NoDoubleClaim ==
    [][ /\ \A j \in Ids :
             ClaimReturned(j) =>
                 /\ j \in Rows
                 /\ jobs[j].status = "pending"
                 /\ jobs'[j].status = "claimed"
                 /\ jobs'[j].lockedBy \in Workers
                 /\ {i \in Rows : jobs'[i].status = "pending"}
                        = {i \in Rows : jobs[i].status = "pending"} \ {j}
        /\ ClaimReturnedNull =>
                 /\ {i \in Rows : jobs[i].status = "pending"} = {}
                 /\ jobs' = jobs
      ]_vars

\* C1 witness: one job is stored, a worker holds it, and the claim() that
\* just ran returned null.
C1_Witness ==
    /\ last = Ret("claim", NoJob)
    /\ Cardinality(Rows) = 1
    /\ \E j \in Rows : jobs[j].status = "claimed" /\ jobs[j].attempts = 1

\* C2: the job a claim() returns was pending, and no pending job had a higher
\* priority, nor the same priority and an earlier createdAt.
C2_ClaimOrder ==
    [][ \A j \in Ids :
            ClaimReturned(j) =>
                /\ j \in Rows
                /\ jobs[j].status = "pending"
                /\ \A k \in Rows :
                       jobs[k].status = "pending" =>
                           /\ jobs[k].priority <= jobs[j].priority
                           /\ jobs[k].priority = jobs[j].priority
                                  => jobs[k].createdAt >= jobs[j].createdAt
      ]_vars

\* C2 witness: the claim() that just ran returned a job although an older
\* job of lower priority is pending.
C2_Witness ==
    /\ last.op = "claim"
    /\ last.val \in Rows
    /\ \E k \in Rows :
           /\ jobs[k].status = "pending"
           /\ jobs[k].priority < jobs[last.val].priority
           /\ jobs[k].createdAt < jobs[last.val].createdAt

\* C3: jobs of equal priority are served in the order they were enqueued:
\* a claim() never returns a job while a job of the same priority that was
\* enqueued before it (ids are handed out in the order of the inserts) is
\* still pending, however close together the two enqueue calls were.
C3_FifoWithinBand ==
    [][ \A y \in Ids :
            ClaimReturned(y) =>
                ~ \E x \in Rows :
                      /\ x < y
                      /\ jobs[x].status = "pending"
                      /\ jobs[x].priority = jobs[y].priority
      ]_vars

\* The live jobs stored under type t and idempotency key key.
LiveWithKey(t, key) ==
    {i \in Rows : /\ jobs[i].type = t
                  /\ jobs[i].idempotencyKey = key
                  /\ jobs[i].status \in {"pending", "claimed"}}

\* C4: in every reachable state at most one pending or claimed job exists for
\* each (type, idempotencyKey) pair with a non-null key.
C4_OneLiveJobPerKey ==
    \A a \in Rows :
        jobs[a].idempotencyKey # NullText =>
            Cardinality(LiveWithKey(jobs[a].type, jobs[a].idempotencyKey)) <= 1

\* This step is an enqueue() call with request req that, after its lookup,
\* goes on to the INSERT.
EnqueueProceeded(req) ==
    suspended' = suspended (+) SetToBag({[op |-> "enqueue", req |-> req]})

\* C5: while a pending or claimed job with the same type and idempotencyKey
\* exists, enqueue returns that job's id and inserts and changes no row,
\* whatever completed or failed jobs with that type and key are stored too;
\* a row enqueue inserts under a key is pending, has a fresh id and attempts
\* 0, and is inserted only when no job with that type and key is live.
C5_IdempotentEnqueue ==
    [][ /\ \A req \in EnqueueRequests :
             (/\ req.idempotencyKey # NullText
              /\ LiveWithKey(req.payload.type, req.idempotencyKey) # {})
                 => ~EnqueueProceeded(req)
        /\ \A j \in Ids :
             (j \in DOMAIN jobs' /\ j \notin Rows /\ jobs'[j].idempotencyKey # NullText)
                 => /\ jobs'[j].status = "pending"
                    /\ jobs'[j].attempts = 0
                    /\ LiveWithKey(jobs'[j].type, jobs'[j].idempotencyKey) = {}
        /\ (last'.op = "enqueue" /\ DOMAIN jobs' = Rows) => jobs' = jobs
      ]_vars

\* The status change of job j in this step, made by operation last'.op, is a
\* legal transition.
LegalTransition(j) ==
    LET from == jobs[j].status
        to == jobs'[j].status
        op == last'.op
    IN  \/ from = "pending" /\ to = "claimed" /\ op = "claim"
        \/ from = "claimed" /\ to = "completed" /\ op = "complete"
        \/ /\ from = "claimed" /\ to = "pending" /\ op = "fail"
           /\ jobs[j].attempts < jobs[j].maxAttempts
        \/ from = "claimed" /\ to = "pending" /\ op = "reclaimStaleLocks"
        \/ /\ from = "claimed" /\ to = "failed" /\ op = "fail"
           /\ jobs[j].attempts >= jobs[j].maxAttempts
        \/ to = "pending" /\ op = "retryJob"

\* C6: every status change of a job, whatever its status when the operation
\* is called, is one of the legal transitions.
C6_LegalTransitionsOnly ==
    [][ \A j \in Rows :
            (j \in DOMAIN jobs' /\ jobs'[j].status # jobs[j].status)
                => LegalTransition(j)
      ]_vars

\* C7: once a job is completed or failed, no claim, complete, fail or
\* reclaimStaleLocks call changes its status.
C7_TerminalAbsorbing ==
    [][ \A j \in Rows :
            (/\ jobs[j].status \in {"completed", "failed"}
             /\ last'.op \in {"claim", "complete", "fail", "reclaimStaleLocks"}
             /\ j \in DOMAIN jobs')
                => jobs'[j].status = jobs[j].status
      ]_vars

\* This step is a fail() call on job j that returned the updated job.
FailReturned(j) == last'.op = "fail" /\ last'.val = j

\* C8: under RetrySpec (a job is driven by alternating claim and fail calls
\* only) attempts changes only by a claim, which adds one, so it counts the
\* claims made; a fail after fewer than maxAttempts claims returns the job to
\* pending with lastError recorded and the lock cleared, and the fail after
\* the maxAttempts-th claim sets it to failed with lastError and completedAt
\* set and the lock cleared; a pending job has budget left and a failed job
\* has used exactly its budget.
C8_RetryBudget ==
    [][ /\ \A j \in Rows :
             /\ j \in DOMAIN jobs'
             /\ jobs'[j].attempts # jobs[j].attempts
                    => /\ ClaimReturned(j)
                       /\ jobs'[j].attempts = jobs[j].attempts + 1
             /\ FailReturned(j) =>
                    /\ jobs[j].status = "claimed"
                    /\ jobs'[j].lastError \in Errors
                    /\ jobs'[j].lockedBy = NullText
                    /\ jobs'[j].lockedAt = NullTime
                    /\ IF jobs[j].attempts < jobs[j].maxAttempts
                       THEN /\ jobs'[j].status = "pending"
                            /\ jobs'[j].completedAt = NullTime
                       ELSE /\ jobs[j].attempts = jobs[j].maxAttempts
                            /\ jobs'[j].status = "failed"
                            /\ jobs'[j].completedAt = clock
        /\ \A j \in DOMAIN jobs' :
             /\ jobs'[j].maxAttempts >= 1
             /\ jobs'[j].status = "pending"
                    => jobs'[j].attempts < jobs'[j].maxAttempts
             /\ jobs'[j].status = "claimed"
                    => jobs'[j].attempts \in 1 .. jobs'[j].maxAttempts
             /\ jobs'[j].status = "failed"
                    => jobs'[j].attempts = jobs'[j].maxAttempts
             /\ jobs'[j].status # "completed"
      ]_vars

\* C8 witness: a job with maxAttempts = 2 has been claimed and failed twice
\* and the second fail, which just returned, set it to failed.
C8_Witness ==
    /\ last.op = "fail"
    /\ last.val \in Rows
    /\ jobs[last.val].maxAttempts = 2
    /\ jobs[last.val].attempts = 2
    /\ jobs[last.val].status = "failed"

\* C9: reclaimStaleLocks resets to pending exactly the claimed jobs whose
\* lockedAt is more than 5 minutes before the call, clears their lockedBy and
\* lockedAt and changes nothing else of them (attempts included), leaves
\* every other job as it was, removes and adds no job, and returns the number
\* of jobs it reset.
C9_ReclaimEffect ==
    [][ last'.op = "reclaimStaleLocks" =>
            /\ DOMAIN jobs' = Rows
            /\ \A i \in Rows :
                 IF /\ jobs[i].status = "claimed"
                    /\ jobs[i].lockedAt < clock - 5 * 60 * 1000
                 THEN jobs'[i] = [jobs[i] EXCEPT !.status = "pending",
                                                 !.lockedBy = NullText,
                                                 !.lockedAt = NullTime]
                 ELSE jobs'[i] = jobs[i]
            /\ last'.val =
                 Cardinality({i \in Rows :
                                 /\ jobs[i].status = "claimed"
                                 /\ jobs[i].lockedAt < clock - 5 * 60 * 1000})
      ]_vars

\* C9 witness: the sweep that just ran reset one job, which is pending with
\* its attempt counted and no lock, and left a job with a younger lock claimed.
C9_Witness ==
    /\ last = Ret("reclaimStaleLocks", 1)
    /\ \E i \in Rows :
           /\ jobs[i].status = "pending"
           /\ jobs[i].attempts = 1
           /\ jobs[i].lockedBy = NullText
    /\ \E k \in Rows :
           /\ jobs[k].status = "claimed"
           /\ jobs[k].lockedAt = clock

\* Job j is held under a lock taken early enough for the modelled clock to
\* pass its expiry.
Abandoned(j) ==
    /\ j \in Rows
    /\ jobs[j].status = "claimed"
    /\ jobs[j].lockedAt + LockTimeoutMs < MaxTicks * (LockTimeoutMs + 1)

\* Job j is pending again after having been claimed.
Recovered(j) ==
    /\ j \in Rows
    /\ jobs[j].status = "pending"
    /\ jobs[j].attempts >= 1

\* Job j is pending behind another pending job that claim() may pick instead.
Outranked(j) ==
    /\ j \in PendingRows
    /\ \E k \in PendingRows \ {j} : ~ SortsBefore(j, k)

\* C10: under LiveSpec (no claimant calls complete or fail; the clock, the
\* sweep and claim() are weakly fair) a claimed job whose lock can expire
\* eventually returns to pending, and a job that has returned to pending is
\* eventually returned by claim() again provided it does not stay outranked
\* in the pending pool for ever.
C10_CrashRecoveryLive ==
    \A j \in Ids :
        /\ Abandoned(j) ~> Recovered(j)
        /\ (<>[](~ Outranked(j)))
               => (Recovered(j) ~> (last = Ret("claim", j)))

\* C10 witness: a job claimed at time 0 was abandoned, swept back to pending
\* after the timeout and has just been returned by claim() a second time.
C10_Witness ==
    /\ last.op = "claim"
    /\ last.val \in Rows
    /\ jobs[last.val].status = "claimed"
    /\ jobs[last.val].attempts = 2
    /\ jobs[last.val].lockedAt > LockTimeoutMs

\* C11: in every reachable state, for every job, lockedBy and lockedAt are
\* both null or both set, and they are set exactly when the status is claimed.
C11_LockFieldsIffClaimed ==
    \A i \in Rows :
        /\ (jobs[i].lockedBy = NullText) <=> (jobs[i].lockedAt = NullTime)
        /\ (jobs[i].lockedBy # NullText) <=> (jobs[i].status = "claimed")

\* C11 witness: one job is claimed and holds its lock while another, claimed
\* before and failed back to pending, has both lock fields null.
C11_Witness ==
    \E a, b \in Rows :
        /\ jobs[a].status = "claimed"
        /\ jobs[a].lockedBy \in Workers
        /\ jobs[a].lockedAt # NullTime
        /\ jobs[b].status = "pending"
        /\ jobs[b].attempts >= 1
        /\ jobs[b].lastError \in Errors
        /\ jobs[b].lockedBy = NullText
        /\ jobs[b].lockedAt = NullTime

\* This step is a retryJob() call on job j that returned the updated job.
RetryReturned(j) == last'.op = "retryJob" /\ last'.val = j

\* C12: a job's attempts changes only in two ways: a claim() that returns the
\* job increases it by exactly one and a retryJob of the job sets it to 0;
\* every other step (enqueue, complete, fail, reclaimStaleLocks, a claim()
\* returning another job or null, a retryJob of another job) leaves it as it
\* was.
C12_AttemptsChanges ==
    [][ \A j \in Rows :
            j \in DOMAIN jobs' =>
                jobs'[j].attempts =
                    IF ClaimReturned(j) THEN jobs[j].attempts + 1
                    ELSE IF RetryReturned(j) THEN 0
                    ELSE jobs[j].attempts
      ]_vars

\* C12 witness: a job has just been returned by claim() for the second time
\* and counts two attempts, while another job that was claimed once, failed
\* and completed since keeps its one attempt.
C12_Witness ==
    /\ last.op = "claim"
    /\ last.val \in Rows
    /\ jobs[last.val].attempts = 2
    /\ \E k \in Rows \ {last.val} :
           /\ jobs[k].attempts = 1
           /\ jobs[k].lastError \in Errors
           /\ jobs[k].status = "completed"

\* C13: a claim(workerId) that returns job j changes exactly that job, in
\* the one step of the call: j goes from pending to claimed with lockedBy =
\* workerId, lockedAt and claimedAt both the time of the claim and attempts
\* one higher, its other fields and every other job stay as they were, and no
\* job is added or removed; no other step takes a job from pending to
\* claimed, so no state shows a part of the change.
C13_ClaimFrame ==
    [][ \A j \in Rows :
            /\ ClaimReturned(j) =>
                 /\ jobs[j].status = "pending"
                 /\ \A w \in Workers :
                      Claim(w) =>
                          jobs' = [jobs EXCEPT
                                     ![j] = [jobs[j] EXCEPT
                                               !.status = "claimed",
                                               !.lockedBy = w,
                                               !.lockedAt = clock,
                                               !.claimedAt = clock,
                                               !.attempts = jobs[j].attempts + 1]]
            /\ (/\ j \in DOMAIN jobs'
                /\ jobs'[j].status = "claimed"
                /\ jobs[j].status # "claimed") => ClaimReturned(j)
      ]_vars

\* C13 witness: after time has passed worker w2 has just claimed one of two
\* stored jobs; the other is still pending and untouched.
C13_Witness ==
    /\ last.op = "claim"
    /\ last.val \in Rows
    /\ clock > 0
    /\ jobs[last.val].status = "claimed"
    /\ jobs[last.val].lockedBy = "w2"
    /\ jobs[last.val].lockedAt = clock
    /\ jobs[last.val].claimedAt = clock
    /\ jobs[last.val].attempts = 1
    /\ \E k \in Rows \ {last.val} :
           /\ jobs[k].status = "pending"
           /\ jobs[k].attempts = 0

\* C14: a claim() returns null exactly when no job is pending at the moment
\* of the call, and then leaves the store unchanged; whenever a job is
\* pending it returns one of the pending jobs, whatever other claim() calls
\* ran just before.
C14_ClaimNullIffNoPending ==
    [][ last'.op = "claim" =>
            LET pending == {i \in Rows : jobs[i].status = "pending"}
            IN  /\ (last'.val = NoJob) <=> (pending = {})
                /\ (last'.val = NoJob) => (jobs' = jobs)
                /\ (pending # {}) => (last'.val \in pending)
      ]_vars

\* C14 witness: two workers called claim() at the same instant with two jobs
\* pending, and each got a job.
C14_Witness ==
    /\ last.op = "claim"
    /\ last.val \in Rows
    /\ \E a, b \in Rows :
           /\ a # b
           /\ jobs[a].status = "claimed"
           /\ jobs[b].status = "claimed"
           /\ jobs[a].lockedBy = "w1"
           /\ jobs[b].lockedBy = "w2"
           /\ jobs[a].lockedAt = jobs[b].lockedAt

\* C15: retryJob(id) on a stored job, whatever its status, returns the job
\* and sets its status to pending, attempts to 0 and lastError, lockedBy,
\* lockedAt and completedAt to null, changing nothing else, so the job is
\* pending with its whole attempt budget; a fail() never changes attempts.
C15_RetryJobEffect ==
    [][ \A j \in Rows :
            /\ (last'.op = "retryJob" /\ RetryJob(j)) =>
                   /\ RetryReturned(j)
                   /\ jobs' = [jobs EXCEPT
                                 ![j] = [jobs[j] EXCEPT
                                           !.status = "pending",
                                           !.attempts = 0,
                                           !.lastError = NullText,
                                           !.lockedBy = NullText,
                                           !.lockedAt = NullTime,
                                           !.completedAt = NullTime]]
                   /\ jobs'[j].attempts < jobs'[j].maxAttempts
            /\ (FailReturned(j) /\ j \in DOMAIN jobs') =>
                   jobs'[j].attempts = jobs[j].attempts
      ]_vars

\* C15 witness: retryJob has just reset a job that had been claimed before:
\* it is pending with attempts 0 and no error, lock or completion time.
C15_Witness ==
    /\ last.op = "retryJob"
    /\ last.val \in Rows
    /\ jobs[last.val].claimedAt # NullTime
    /\ jobs[last.val].status = "pending"
    /\ jobs[last.val].attempts = 0
    /\ jobs[last.val].lastError = NullText
    /\ jobs[last.val].lockedBy = NullText
    /\ jobs[last.val].lockedAt = NullTime
    /\ jobs[last.val].completedAt = NullTime

\* C16: purgeCompleted removes every completed job and no other: pending,
\* claimed and failed jobs stay with every field as it was, and the count
\* returned is the number of completed jobs stored just before the call.
C16_PurgeCompleted ==
    [][ last'.op = "purgeCompleted" =>
            /\ DOMAIN jobs' = {i \in Rows : jobs[i].status # "completed"}
            /\ \A i \in DOMAIN jobs' : jobs'[i] = jobs[i]
            /\ last'.val =
                 Cardinality({i \in Rows : jobs[i].status = "completed"})
      ]_vars

\* C16 witness: a purge has just removed one completed job and a failed job
\* is still stored.
C16_Witness ==
    /\ last = Ret("purgeCompleted", 1)
    /\ Cardinality(Rows) = 1
    /\ \E i \in Rows : jobs[i].status = "failed"

\* C17: complete(jobId) on a stored job returns the job and sets status to
\* completed, completedAt to the time of the call and lockedBy and lockedAt
\* to null, whatever the job's status and whoever holds its lock: a job that
\* was reclaimed and claimed by a second worker is completed by the first
\* worker's call, and a complete or fail that arrives after that is applied
\* to the completed job too.
C17_CompleteUnchecked ==
    [][ \A j \in Rows :
            /\ (last'.op = "complete" /\ Complete(j)) =>
                   /\ last'.val = j
                   /\ jobs' = [jobs EXCEPT
                                 ![j] = [jobs[j] EXCEPT
                                           !.status = "completed",
                                           !.completedAt = clock,
                                           !.lockedBy = NullText,
                                           !.lockedAt = NullTime]]
            /\ (FailReturned(j) /\ j \in DOMAIN jobs') =>
                   /\ jobs'[j].status \in {"pending", "failed"}
                   /\ jobs'[j].lastError \in Errors
                   /\ jobs'[j].lockedBy = NullText
                   /\ jobs'[j].lockedAt = NullTime
      ]_vars

\* C17 witness: a job claimed at time 0 and never failed was swept after the
\* timeout, claimed a second time and then completed while the second claim
\* was the current one.
C17_Witness ==
    /\ last.op = "complete"
    /\ last.val \in Rows
    /\ jobs[last.val].status = "completed"
    /\ jobs[last.val].attempts = 2
    /\ jobs[last.val].lastError = NullText
    /\ jobs[last.val].claimedAt > LockTimeoutMs
    /\ jobs[last.val].completedAt = clock
    /\ jobs[last.val].lockedBy = NullText

\* C18: complete, fail and retryJob called with an id that is not in the
\* store return null, deleteJob called with such an id returns false, and in
\* each case no job is created, removed or changed.
C18_NotFound ==
    [][ \A j \in Ids \ Rows :
            /\ (last'.op = "complete" /\ Complete(j)) =>
                   (last'.val = NoJob /\ jobs' = jobs)
            /\ (last'.op = "fail" /\ \E e \in Errors : FailCall(j, e)) =>
                   (last'.val = NoJob /\ jobs' = jobs)
            /\ (last'.op = "retryJob" /\ RetryJob(j)) =>
                   (last'.val = NoJob /\ jobs' = jobs)
            /\ (last'.op = "deleteJob" /\ DeleteJob(j)) =>
                   (last'.val = FALSE /\ jobs' = jobs)
      ]_vars

\* C18 witness: job 1 has been deleted, job 2 is stored, and a deleteJob
\* with an id that is not in the store has just returned false.
C18_Witness ==
    /\ last = Ret("deleteJob", FALSE)
    /\ Rows = {2}

\* C19: a job's id, type, payload, priority, maxAttempts, createdAt and
\* idempotencyKey are fixed when enqueue creates it: no step changes any of
\* them while the job is stored; and no two jobs ever share an id: stored
\* jobs have distinct ids and a new job gets an id no job had before.
C19_Immutable ==
    [][ /\ \A j \in Rows :
             j \in DOMAIN jobs' =>
                 /\ jobs'[j].id = jobs[j].id
                 /\ jobs'[j].type = jobs[j].type
                 /\ jobs'[j].payload = jobs[j].payload
                 /\ jobs'[j].priority = jobs[j].priority
                 /\ jobs'[j].maxAttempts = jobs[j].maxAttempts
                 /\ jobs'[j].createdAt = jobs[j].createdAt
                 /\ jobs'[j].idempotencyKey = jobs[j].idempotencyKey
        /\ \A a, b \in DOMAIN jobs' :
             (a # b) => (jobs'[a].id # jobs'[b].id)
        /\ \A j \in DOMAIN jobs' \ Rows :
             /\ jobs'[j].id >= nextId
             /\ jobs'[j].createdAt = clock
      ]_vars

\* C19 witness: a keyed job created at time 0 has been claimed and, later,
\* reset by retryJob, and still has the id, type, priority, maxAttempts,
\* createdAt and key it was enqueued with.
C19_Witness ==
    /\ last.op = "retryJob"
    /\ last.val \in Rows
    /\ clock > 0
    /\ jobs[last.val].claimedAt = clock
    /\ jobs[last.val].id = last.val
    /\ jobs[last.val].type = "create_file"
    /\ jobs[last.val].payload = CreateFilePayload
    /\ jobs[last.val].priority = 1
    /\ jobs[last.val].maxAttempts = 1
    /\ jobs[last.val].createdAt = 0
    /\ jobs[last.val].idempotencyKey = "k"

\* C20: a job leaves the store only in a deleteJob or purgeCompleted step:
\* enqueue, claim, complete, fail, reclaimStaleLocks, retryJob and the
\* passing of time remove no job; deleteJob(id) removes exactly the job with
\* that id, whatever its status, leaves every other job as it was, and
\* returns true exactly when such a job was stored.
C20_RemovalOnlyByDelete ==
    [][ /\ \A j \in Rows :
             j \notin DOMAIN jobs' =>
                 last'.op \in {"deleteJob", "purgeCompleted"}
        /\ \A j \in Ids :
             (last'.op = "deleteJob" /\ DeleteJob(j)) =>
                 /\ DOMAIN jobs' = Rows \ {j}
                 /\ \A i \in DOMAIN jobs' : jobs'[i] = jobs[i]
                 /\ last'.val = (j \in Rows)
      ]_vars

\* C20 witness: time has passed, a deleteJob has just removed job 2, and job
\* 1, failed, is still stored.
C20_Witness ==
    /\ last = Ret("deleteJob", TRUE)
    /\ clock > 0
    /\ nextId = 3
    /\ Rows = {1}
    /\ jobs[1].status = "failed"
    /\ jobs[1].completedAt = 0

\* C21: getJobs(filter) returns only jobs that match every filter field that
\* is given (with status and type both given every returned job has that
\* status and that type), and the result is the limit/offset slice of a
\* listing of exactly those jobs by priority descending, then createdAt
\* ascending.
C21_GetJobsFilter ==
    [][ \A filter \in JobFilters :
            (last'.op = "getJobs" /\ GetJobs(filter)) =>
                LET result == last'.val
                    matching ==
                        {i \in Rows :
                            /\ filter.status # Absent
                                   => jobs[i].status = filter.status
                            /\ filter.type # Absent
                                   => jobs[i].type = filter.type}
                IN  /\ \A k \in DOMAIN result : result[k] \in matching
                    /\ \A a, b \in DOMAIN result :
                           a < b =>
                               \/ jobs[result[a]].priority
                                      > jobs[result[b]].priority
                               \/ /\ jobs[result[a]].priority
                                         = jobs[result[b]].priority
                                  /\ jobs[result[a]].createdAt
                                         <= jobs[result[b]].createdAt
                    /\ \E s \in OrderedListings(matching) :
                           result = Page(s, filter.limit, filter.offset)
      ]_vars

\* C22: fail(jobId, error) is atomic with respect to the other operations on
\* the job: the status a fail writes is failed exactly when the job's
\* attempts is at least its maxAttempts at the moment of the write, and
\* pending otherwise.
C22_FailAtomic ==
    [][ \A j \in Rows :
            (FailReturned(j) /\ j \in DOMAIN jobs') =>
                IF jobs[j].attempts >= jobs[j].maxAttempts
                THEN jobs'[j].status = "failed"
                ELSE jobs'[j].status = "pending"
      ]_vars

\* C23: in every reachable state a job's attempts is at most its
\* maxAttempts, so between two retryJob calls a job is returned by claim() at
\* most maxAttempts times, also when it comes back through
\* reclaimStaleLocks instead of fail.
C23_AttemptsBounded ==
    \A j \in Rows : jobs[j].attempts <= jobs[j].maxAttempts

\* C24: duplicate delivery comes only through reclamation or manual retry.
\* Under DeliverySpec a claim() returns only a job that no worker holds, and
\* a job leaves a worker's hands (claimed to any other status) only in a
\* step of fail or complete on that job, of reclaimStaleLocks, or of
\* retryJob on that job; so in an execution without reclaimStaleLocks and
\* retryJob a job is returned to a second worker only after a fail on it.
C24_DuplicateDelivery ==
    [][ \A j \in Rows :
            /\ ClaimReturned(j) =>
                   /\ jobs[j].status = "pending"
                   /\ jobs[j].lockedBy = NullText
            /\ (/\ jobs[j].status = "claimed"
                /\ j \in DOMAIN jobs'
                /\ jobs'[j].status # "claimed") =>
                   \/ FailReturned(j) /\ jobs'[j].status \in {"pending", "failed"}
                   \/ /\ last'.op = "complete" /\ last'.val = j
                      /\ jobs'[j].status = "completed"
                   \/ /\ last'.op = "reclaimStaleLocks"
                      /\ jobs[j].lockedAt + LockTimeoutMs < clock
                      /\ jobs'[j].status = "pending"
                   \/ RetryReturned(j) /\ jobs'[j].status = "pending"
      ]_vars

\* C24 witness: the execution the claim names: a job that a worker claimed at
\* time 0, and on which neither fail nor complete nor retryJob was ever
\* called, was swept after the timeout and has just been returned by claim()
\* to worker w2.
C24_Witness ==
    /\ last.op = "claim"
    /\ last.val \in Rows
    /\ jobs[last.val].status = "claimed"
    /\ jobs[last.val].lockedBy = "w2"
    /\ jobs[last.val].lockedAt = LockTimeoutMs + 1
    /\ jobs[last.val].attempts = 2
    /\ jobs[last.val].lastError = NullText
    /\ jobs[last.val].completedAt = NullTime

\* C25: a job returned to pending by fail (with retry remaining) or by
\* reclaimStaleLocks keeps its priority and createdAt and is claimable at
\* once: the next claim() does not pass it over for a pending job of lower
\* priority, nor for a pending job of the same priority that was enqueued
\* after it (ids are handed out in the order of the inserts).  Under
\* DeliverySpec a pending job with attempts >= 1 is one that came back
\* through fail or the sweep.
C25_ImmediateReclaim ==
    [][ /\ \A j \in Rows :
             (/\ jobs[j].status = "claimed"
              /\ jobs'[j].status = "pending"
              /\ last'.op \in {"fail", "reclaimStaleLocks"}) =>
                 /\ jobs'[j].priority = jobs[j].priority
                 /\ jobs'[j].createdAt = jobs[j].createdAt
        /\ \A y \in Rows :
             ClaimReturned(y) =>
                 \A x \in Rows \ {y} :
                     (jobs[x].status = "pending" /\ jobs[x].attempts >= 1) =>
                         /\ jobs[x].priority <= jobs[y].priority
                         /\ (jobs[x].priority = jobs[y].priority) => (y < x)
      ]_vars

====
